---- MODULE Spec2Model ----
(***************************************************************************)
(* Model of the ScriptGrab whisper-engine sidecar (engine.py, protocol.py). *)
(*                                                                         *)
(* One behaviour is one CLI invocation: the module-level import of the     *)
(* transcription library under the stdout redirection, main(), and         *)
(* transcribe_audio() statement by statement.  The external library is     *)
(* opaque: each of its calls may print text to sys.stdout, return, or      *)
(* raise.  A KeyboardInterrupt is asynchronous: Python may raise it after  *)
(* any bytecode instruction, so the model may raise it at every statement  *)
(* boundary of transcribe_audio, the finally clauses and the exception     *)
(* handlers included.                                                      *)
(*                                                                         *)
(* stdoutStream is the true primary stream (the protocol stream) and       *)
(* stderrStream the diagnostic stream; sysStdout is the object sys.stdout  *)
(* currently names.                                                        *)
(***************************************************************************)
EXTENDS Integers, Sequences, FiniteSets, TLC

VARIABLES pc, sysStdout, original_stdout, temp_stdout, temp_stdout2,
          stdoutStream, stderrStream, exitCode, device, total_duration,
          exc, result, idx, interrupts, libCalls, path_exists,
          interrupted_before_terminal,
          callback, calls, arg_percent, arg_segment, arg_segment_index,
          formatted_segment

vars == <<pc, sysStdout, original_stdout, temp_stdout, temp_stdout2,
          stdoutStream, stderrStream, exitCode, device, total_duration,
          exc, result, idx, interrupts, libCalls, path_exists,
          interrupted_before_terminal,
          callback, calls, arg_percent, arg_segment, arg_segment_index,
          formatted_segment>>

\* The TranscriptionProgressCallback instance (none is constructed by
\* transcribe_audio), the number of calls made to a function taken on its
\* own, the percent argument of the last emit_progress call, and the
\* arguments and result of the last format_segment call.
functionVars == <<callback, calls, arg_percent, arg_segment, arg_segment_index,
                  formatted_segment>>

(***************************************************************************)
(* Bounds of the model.                                                    *)
(***************************************************************************)
MaxInterrupts == 2

MaxSegments == 2

MaxCalls == 4

MaxPosition == 8

MaxTotalDuration == 6

MaxExcess == 2

MaxWords == 2

(***************************************************************************)
(* Inputs.                                                                 *)
(***************************************************************************)
\* --device: None (auto-detect), "cpu" or "cuda".
Devices == {"None", "cpu", "cuda"}

\* len(audio) of the probed file, in samples at 16 kHz; 0 is empty audio.
SampleCounts == {0, 4, 8, 32}

\* The start of a segment of the result, in milliseconds: two values, so
\* that segments can come back in order, out of order or with equal starts.
SegmentStarts == {0, 1}

\* A raw segment of the library's result: its start and whether formatting
\* and serialising it succeeds (ok) or raises.
RawSegments == [start : SegmentStarts, ok : BOOLEAN]

RECURSIVE SeqsUpTo(_, _)
SeqsUpTo(S, n) ==
    IF n = 0 THEN {<<>>}
    ELSE LET shorter == SeqsUpTo(S, n - 1)
         IN  shorter \cup {Append(s, x) : s \in {t \in shorter : Len(t) = n - 1}, x \in S}

\* What whisper.transcribe can return: a language (or none) and segments.
Results == [language : {"en", "missing"}, segments : SeqsUpTo(RawSegments, MaxSegments)]

NoResult == [language |-> "missing", segments |-> <<>>]

NoExc == [kind |-> "none", msg |-> ""]

KeyboardInterrupt == [kind |-> "KeyboardInterrupt", msg |-> ""]

Exception(m) == [kind |-> "Exception", msg |-> m]

(***************************************************************************)
(* protocol.py: the four messages.                                         *)
(***************************************************************************)
Min(a, b) == IF a < b THEN a ELSE b

Max(a, b) == IF a > b THEN a ELSE b

\* Progress with the percent capped at 100 only.
ProgressNoFloor(percent, status) ==
    [type |-> "progress", percent |-> Min(100, percent), status |-> status]

\* ProtocolEmitter.progress: percent clamped into [0, 100].
Progress(percent, status) ==
    [type |-> "progress", percent |-> Max(0, Min(100, percent)), status |-> status]

\* round(x, 3) of a duration of n samples at 16 kHz, in milliseconds
\* (n / 16 to the nearest integer; on the modelled sample counts the one tie,
\* 8 samples = 0.0005 s, rounds up as the binary double does).
Round3Ms(n) == (2 * n + 16) \div 32

\* ProtocolEmitter.complete: duration rounded to 3 decimals.
Complete(language, duration) ==
    [type |-> "complete", language |-> language, duration |-> Round3Ms(duration)]

\* ProtocolEmitter.error.
Error(message) == [type |-> "error", message |-> message]

\* The decimal digits of a natural number, most significant first.
RECURSIVE Digits(_)
Digits(n) == IF n < 10 THEN <<n>> ELSE Append(Digits(n \div 10), n % 10)

\* The format spec 0<width>d: zeros on the left up to the minimum width.
RECURSIVE ZeroPad(_, _)
ZeroPad(ds, width) == IF Len(ds) >= width THEN ds ELSE ZeroPad(<<0>> \o ds, width)

\* format_segment, line 78: f"seg_{segment_index:04d}".
SegmentId(segment_index) ==
    [prefix |-> "seg_", digits |-> ZeroPad(Digits(segment_index), 4)]

\* ProtocolEmitter.segment_dict, applied to format_segment(segment, index):
\* of the formatted fields the run keeps the id and the start.
SegmentMsg(segment, segment_index) ==
    [type |-> "segment", id |-> SegmentId(segment_index), start |-> segment.start]

\* A line of text the library printed.
Noise == [type |-> "noise"]

\* The positional audio_path argument.
AudioPath == "./nope.wav"

(***************************************************************************)
(* Writing to sys.stdout.  print() looks sys.stdout up at call time: the   *)
(* true stream gets the text, or the StderrRedirector forwards it to       *)
(* stderr (StderrRedirector.write).                                        *)
(***************************************************************************)
WriteStdout(item) ==
    IF sysStdout = "real"
    THEN /\ stdoutStream' = Append(stdoutStream, item)
         /\ UNCHANGED stderrStream
    ELSE /\ stderrStream' = Append(stderrStream, item)
         /\ UNCHANGED stdoutStream

\* ProtocolEmitter._emit: print(json.dumps(message), flush=True).
Emit(message) == WriteStdout(message)

\* A library call that may print a line of text to sys.stdout.
LibraryOutput(noisy) ==
    IF noisy THEN WriteStdout(Noise) ELSE UNCHANGED <<stdoutStream, stderrStream>>

\* Exit status of a process that dies of a KeyboardInterrupt nobody catches:
\* 128 + SIGINT where the interpreter re-raises the signal, 1 where it only
\* prints the traceback.
UncaughtInterruptStatus == {1, 130}

Init ==
    /\ pc = "import_redirect"
    /\ sysStdout = "real"
    /\ original_stdout = "unset"
    /\ temp_stdout = "unset"
    /\ temp_stdout2 = "unset"
    /\ stdoutStream = <<>>
    /\ stderrStream = <<>>
    /\ exitCode = "running"
    /\ device = "None"
    /\ total_duration = 0
    /\ exc = NoExc
    /\ result = NoResult
    /\ idx = 0
    /\ interrupts = 0
    /\ libCalls = {}
    /\ path_exists \in BOOLEAN
    /\ interrupted_before_terminal = FALSE
    /\ callback = "none"
    /\ calls = 0
    /\ arg_percent = "none"
    /\ arg_segment = "none"
    /\ arg_segment_index = 0
    /\ formatted_segment = "none"

(***************************************************************************)
(* Module import, engine.py 49-57.                                         *)
(***************************************************************************)
ImportRedirect ==
    /\ pc = "import_redirect"
    /\ original_stdout' = sysStdout
    /\ sysStdout' = "redirector"
    /\ pc' = "import_lib"
    /\ UNCHANGED <<temp_stdout, temp_stdout2, stdoutStream, stderrStream, exitCode,
                   device, total_duration, exc, result, idx, interrupts, libCalls,
                   path_exists, interrupted_before_terminal, functionVars>>

ImportLibrary ==
    /\ pc = "import_lib"
    /\ \E noisy \in BOOLEAN : LibraryOutput(noisy)
    /\ pc' = "import_restore"
    /\ UNCHANGED <<sysStdout, original_stdout, temp_stdout, temp_stdout2, exitCode,
                   device, total_duration, exc, result, idx, interrupts, libCalls,
                   path_exists, interrupted_before_terminal, functionVars>>

ImportRestore ==
    /\ pc = "import_restore"
    /\ sysStdout' = original_stdout
    /\ pc' = "main"
    /\ UNCHANGED <<original_stdout, temp_stdout, temp_stdout2, stdoutStream,
                   stderrStream, exitCode, device, total_duration, exc, result, idx,
                   interrupts, libCalls, path_exists,
                   interrupted_before_terminal, functionVars>>

(***************************************************************************)
(* main(), engine.py 224-255.  parse_args() ends the process with status 2 *)
(* when the command line is not valid (usage goes to stderr).              *)
(***************************************************************************)
ParseArgs ==
    /\ pc = "main"
    /\ \E valid \in BOOLEAN, d \in Devices :
          IF valid
          THEN /\ device' = d
               /\ pc' = "validate"
               /\ UNCHANGED exitCode
          ELSE /\ pc' = "exited"
               /\ exitCode' = 2
               /\ UNCHANGED device
    /\ UNCHANGED <<sysStdout, original_stdout, temp_stdout, temp_stdout2, stdoutStream,
                   stderrStream, total_duration, exc, result, idx, interrupts,
                   libCalls, path_exists, interrupted_before_terminal, functionVars>>

(***************************************************************************)
(* transcribe_audio, engine.py 151-221.                                    *)
(***************************************************************************)
\* What a step that only moves on and writes to sys.stdout leaves alone.
Frame ==
    UNCHANGED <<sysStdout, original_stdout, temp_stdout, temp_stdout2, exitCode,
                device, total_duration, exc, result, idx, interrupts, libCalls,
                path_exists, interrupted_before_terminal, functionVars>>

\* sys.exit(code): SystemExit passes both except clauses and ends the process.
SysExit(code) ==
    /\ pc' = "exited"
    /\ exitCode' = code
    /\ UNCHANGED <<sysStdout, original_stdout, temp_stdout, temp_stdout2, stdoutStream,
                   stderrStream, device, total_duration, exc, result, idx, interrupts,
                   libCalls, path_exists, interrupted_before_terminal, functionVars>>

\* 153: if not Path(audio_path).exists()
Validate ==
    /\ pc = "validate"
    /\ pc' = IF path_exists THEN "emit_loading_audio" ELSE "emit_not_found"
    /\ UNCHANGED <<stdoutStream, stderrStream>>
    /\ Frame

\* 154
EmitFileNotFound ==
    /\ pc = "emit_not_found"
    /\ Emit(Error("File not found: " \o AudioPath))
    /\ pc' = "exit_not_found"
    /\ Frame

\* ExitFileNotFound without the sys.exit(1): the run goes on to load the audio.
ExitFileNotFoundFallsThrough ==
    /\ pc = "exit_not_found"
    /\ pc' = "emit_loading_audio"
    /\ UNCHANGED <<stdoutStream, stderrStream>>
    /\ Frame

\* 155
ExitFileNotFound ==
    /\ pc = "exit_not_found"
    /\ SysExit(1)

\* 158
EmitLoadingAudio ==
    /\ pc = "emit_loading_audio"
    /\ Emit(Progress(5, "Loading audio file..."))
    /\ pc' = "get_audio_duration"
    /\ Frame

\* GetAudioDuration with the check written total_duration < 0.
GetAudioDurationStrictCheck ==
    /\ pc = "get_audio_duration"
    /\ \E noisy \in BOOLEAN : LibraryOutput(noisy)
    /\ \E raises \in BOOLEAN, n \in SampleCounts :
          total_duration' = IF raises THEN 0 ELSE n
    /\ libCalls' = libCalls \cup {"load_audio"}
    /\ pc' = IF total_duration' < 0 THEN "emit_no_duration" ELSE "emit_loading_model"
    /\ UNCHANGED <<sysStdout, original_stdout, temp_stdout, temp_stdout2, exitCode,
                   device, exc, result, idx, interrupts,
                   path_exists, interrupted_before_terminal, functionVars>>

\* 159-161 with get_audio_duration (98-114): load_audio runs with sys.stdout
\* as it is; its length over 16000 is the duration, any Exception gives 0.0.
GetAudioDuration ==
    /\ pc = "get_audio_duration"
    /\ \E noisy \in BOOLEAN : LibraryOutput(noisy)
    /\ \E raises \in BOOLEAN, n \in SampleCounts :
          total_duration' = IF raises THEN 0 ELSE n
    /\ libCalls' = libCalls \cup {"load_audio"}
    /\ pc' = IF total_duration' <= 0 THEN "emit_no_duration" ELSE "emit_loading_model"
    /\ UNCHANGED <<sysStdout, original_stdout, temp_stdout, temp_stdout2, exitCode,
                   device, exc, result, idx, interrupts,
                   path_exists, interrupted_before_terminal, functionVars>>

\* 162
EmitNoDuration ==
    /\ pc = "emit_no_duration"
    /\ Emit(Error("Could not determine audio duration"))
    /\ pc' = "exit_no_duration"
    /\ Frame

\* 163
ExitNoDuration ==
    /\ pc = "exit_no_duration"
    /\ SysExit(1)

\* EmitLoadingModel announcing 15.
EmitLoadingModelFifteen ==
    /\ pc = "emit_loading_model"
    /\ Emit(Progress(15, "Loading Whisper model..."))
    /\ pc' = "detect_device"
    /\ Frame

\* 166
EmitLoadingModel ==
    /\ pc = "emit_loading_model"
    /\ Emit(Progress(10, "Loading Whisper model..."))
    /\ pc' = "detect_device"
    /\ Frame

\* 169-171: import torch and torch.cuda.is_available(), only without --device.
DetectDevice ==
    /\ pc = "detect_device"
    /\ IF device = "None"
       THEN /\ \E noisy \in BOOLEAN : LibraryOutput(noisy)
            /\ libCalls' = libCalls \cup {"cuda_is_available"}
            /\ \E raises \in BOOLEAN, d \in {"cpu", "cuda"} :
                  IF raises
                  THEN /\ exc' = Exception("No module named 'torch'")
                       /\ pc' = "except_exception"
                       /\ UNCHANGED device
                  ELSE /\ device' = d
                       /\ pc' = "load_redirect"
                       /\ UNCHANGED exc
       ELSE /\ pc' = "load_redirect"
            /\ UNCHANGED <<stdoutStream, stderrStream, libCalls, exc, device>>
    /\ UNCHANGED <<sysStdout, original_stdout, temp_stdout, temp_stdout2, exitCode,
                   total_duration, result, idx, interrupts,
                   path_exists, interrupted_before_terminal, functionVars>>

\* 174-176
LoadRedirect ==
    /\ pc = "load_redirect"
    /\ temp_stdout' = sysStdout
    /\ sysStdout' = "redirector"
    /\ pc' = "load_model"
    /\ UNCHANGED <<original_stdout, temp_stdout2, stdoutStream, stderrStream, exitCode,
                   device, total_duration, exc, result, idx, interrupts, libCalls,
                   path_exists, interrupted_before_terminal, functionVars>>

\* 177-178: whisper.load_model inside try; it returns or raises.
LoadModel ==
    /\ pc = "load_model"
    /\ \E noisy \in BOOLEAN : LibraryOutput(noisy)
    /\ libCalls' = libCalls \cup {"load_model"}
    /\ \E raises \in BOOLEAN :
          exc' = IF raises THEN Exception("model load failed") ELSE NoExc
    /\ pc' = "load_finally"
    /\ UNCHANGED <<sysStdout, original_stdout, temp_stdout, temp_stdout2, exitCode,
                   device, total_duration, result, idx, interrupts,
                   path_exists, interrupted_before_terminal, functionVars>>

\* Where control goes after a finally clause.
AfterFinally(next) ==
    IF exc.kind = "none" THEN next
    ELSE IF exc.kind = "KeyboardInterrupt" THEN "except_interrupt"
    ELSE "except_exception"

\* 179-180
LoadFinally ==
    /\ pc = "load_finally"
    /\ sysStdout' = temp_stdout
    /\ pc' = AfterFinally("emit_model_loaded")
    /\ UNCHANGED <<original_stdout, temp_stdout, temp_stdout2, stdoutStream,
                   stderrStream, exitCode, device, total_duration, exc, result, idx,
                   interrupts, libCalls, path_exists,
                   interrupted_before_terminal, functionVars>>

\* EmitModelLoaded with the percent mistyped as 2.
EmitModelLoadedTypo ==
    /\ pc = "emit_model_loaded"
    /\ Emit(Progress(2, "Model loaded, starting transcription..."))
    /\ pc' = "load_audio"
    /\ Frame

\* 182
EmitModelLoaded ==
    /\ pc = "emit_model_loaded"
    /\ Emit(Progress(20, "Model loaded, starting transcription..."))
    /\ pc' = "load_audio"
    /\ Frame

\* 185: whisper.load_audio with sys.stdout as it is.
LoadAudio ==
    /\ pc = "load_audio"
    /\ \E noisy \in BOOLEAN : LibraryOutput(noisy)
    /\ libCalls' = libCalls \cup {"load_audio"}
    /\ \E raises \in BOOLEAN :
          IF raises
          THEN /\ exc' = Exception("audio load failed")
               /\ pc' = "except_exception"
          ELSE /\ pc' = "transcribe_redirect"
               /\ UNCHANGED exc
    /\ UNCHANGED <<sysStdout, original_stdout, temp_stdout, temp_stdout2, exitCode,
                   device, total_duration, result, idx, interrupts,
                   path_exists, interrupted_before_terminal, functionVars>>

\* 188-189
TranscribeRedirect ==
    /\ pc = "transcribe_redirect"
    /\ temp_stdout2' = sysStdout
    /\ sysStdout' = "redirector"
    /\ pc' = "transcribe"
    /\ UNCHANGED <<original_stdout, temp_stdout, stdoutStream, stderrStream, exitCode,
                   device, total_duration, exc, result, idx, interrupts, libCalls,
                   path_exists, interrupted_before_terminal, functionVars>>

\* 190-198: whisper.transcribe inside try; it returns a result or raises.
Transcribe ==
    /\ pc = "transcribe"
    /\ \E noisy \in BOOLEAN : LibraryOutput(noisy)
    /\ libCalls' = libCalls \cup {"transcribe"}
    /\ \E raises \in BOOLEAN, r \in Results :
          IF raises
          THEN /\ exc' = Exception("transcription failed")
               /\ UNCHANGED result
          ELSE /\ result' = r
               /\ exc' = NoExc
    /\ pc' = "transcribe_finally"
    /\ UNCHANGED <<sysStdout, original_stdout, temp_stdout, temp_stdout2, exitCode,
                   device, total_duration, idx, interrupts,
                   path_exists, interrupted_before_terminal, functionVars>>

\* TranscribeFinally without the restoring assignment.
TranscribeFinallyNoRestore ==
    /\ pc = "transcribe_finally"
    /\ pc' = AfterFinally("emit_processing")
    /\ UNCHANGED <<sysStdout, original_stdout, temp_stdout, temp_stdout2, stdoutStream,
                   stderrStream, exitCode, device, total_duration, exc, result, idx,
                   interrupts, libCalls, path_exists,
                   interrupted_before_terminal, functionVars>>

\* 199-200
TranscribeFinally ==
    /\ pc = "transcribe_finally"
    /\ sysStdout' = temp_stdout2
    /\ pc' = AfterFinally("emit_processing")
    /\ UNCHANGED <<original_stdout, temp_stdout, temp_stdout2, stdoutStream,
                   stderrStream, exitCode, device, total_duration, exc, result, idx,
                   interrupts, libCalls, path_exists,
                   interrupted_before_terminal, functionVars>>

\* result.get("segments", [])
Segments == result.segments

\* result.get("language", "unknown")
DetectedLanguage == IF result.language = "missing" THEN "unknown" ELSE result.language

\* EmitProcessing announcing 100 before the segments are emitted.
EmitProcessingFull ==
    /\ pc = "emit_processing"
    /\ Emit(Progress(100, "Processing segments..."))
    /\ idx' = 0
    /\ pc' = IF Len(Segments) = 0 THEN "emit_transcription_complete" ELSE "emit_segment"
    /\ UNCHANGED <<sysStdout, original_stdout, temp_stdout, temp_stdout2, exitCode,
                   device, total_duration, exc, result, interrupts, libCalls,
                   path_exists, interrupted_before_terminal, functionVars>>

\* 203-208: Progress(90), then the loop over enumerate(segments) starts.
EmitProcessing ==
    /\ pc = "emit_processing"
    /\ Emit(Progress(90, "Processing segments..."))
    /\ idx' = 0
    /\ pc' = IF Len(Segments) = 0 THEN "emit_transcription_complete" ELSE "emit_segment"
    /\ UNCHANGED <<sysStdout, original_stdout, temp_stdout, temp_stdout2, exitCode,
                   device, total_duration, exc, result, interrupts, libCalls,
                   path_exists, interrupted_before_terminal, functionVars>>

\* EmitSegment walking the result from its last segment to its first.
EmitSegmentReversed ==
    /\ pc = "emit_segment"
    /\ idx < Len(Segments)
    /\ IF Segments[Len(Segments) - idx].ok
       THEN /\ Emit(SegmentMsg(Segments[Len(Segments) - idx], idx))
            /\ idx' = idx + 1
            /\ pc' = IF idx + 1 = Len(Segments)
                     THEN "emit_transcription_complete" ELSE "emit_segment"
            /\ UNCHANGED exc
       ELSE /\ exc' = Exception("malformed segment")
            /\ pc' = "except_exception"
            /\ UNCHANGED <<stdoutStream, stderrStream, idx>>
    /\ UNCHANGED <<sysStdout, original_stdout, temp_stdout, temp_stdout2, exitCode,
                   device, total_duration, result, interrupts, libCalls, path_exists,
                   interrupted_before_terminal, functionVars>>

\* EmitSegment numbering the segments from 1.
EmitSegmentOneBased ==
    /\ pc = "emit_segment"
    /\ idx < Len(Segments)
    /\ IF Segments[idx + 1].ok
       THEN /\ Emit(SegmentMsg(Segments[idx + 1], idx + 1))
            /\ idx' = idx + 1
            /\ pc' = IF idx + 1 = Len(Segments)
                     THEN "emit_transcription_complete" ELSE "emit_segment"
            /\ UNCHANGED exc
       ELSE /\ exc' = Exception("malformed segment")
            /\ pc' = "except_exception"
            /\ UNCHANGED <<stdoutStream, stderrStream, idx>>
    /\ UNCHANGED <<sysStdout, original_stdout, temp_stdout, temp_stdout2, exitCode,
                   device, total_duration, result, interrupts, libCalls, path_exists,
                   interrupted_before_terminal, functionVars>>

\* 208-210: one turn of the loop; formatting or serialising a malformed
\* segment raises before anything is written.
EmitSegment ==
    /\ pc = "emit_segment"
    /\ idx < Len(Segments)
    /\ IF Segments[idx + 1].ok
       THEN /\ Emit(SegmentMsg(Segments[idx + 1], idx))
            /\ idx' = idx + 1
            /\ pc' = IF idx + 1 = Len(Segments)
                     THEN "emit_transcription_complete" ELSE "emit_segment"
            /\ UNCHANGED exc
       ELSE /\ exc' = Exception("malformed segment")
            /\ pc' = "except_exception"
            /\ UNCHANGED <<stdoutStream, stderrStream, idx>>
    /\ UNCHANGED <<sysStdout, original_stdout, temp_stdout, temp_stdout2, exitCode,
                   device, total_duration, result, interrupts, libCalls,
                   path_exists, interrupted_before_terminal, functionVars>>

\* 213
EmitTranscriptionComplete ==
    /\ pc = "emit_transcription_complete"
    /\ Emit(Progress(100, "Transcription complete"))
    /\ pc' = "emit_complete"
    /\ Frame

\* 214
EmitComplete ==
    /\ pc = "emit_complete"
    /\ Emit(Complete(DetectedLanguage, total_duration))
    /\ pc' = "return"
    /\ Frame

\* The try block ends, transcribe_audio and main return: exit status 0.
Return ==
    /\ pc = "return"
    /\ SysExit(0)

\* 216-217
HandleKeyboardInterrupt ==
    /\ pc = "except_interrupt"
    /\ Emit(Error("Transcription cancelled by user"))
    /\ pc' = "exit_interrupt"
    /\ Frame

\* 218
ExitInterrupt ==
    /\ pc = "exit_interrupt"
    /\ SysExit(130)

\* 219-220
HandleException ==
    /\ pc = "except_exception"
    /\ Emit(Error(exc.msg))
    /\ pc' = "exit_exception"
    /\ Frame

\* 221
ExitException ==
    /\ pc = "exit_exception"
    /\ SysExit(1)

(***************************************************************************)
(* KeyboardInterrupt.                                                      *)
(***************************************************************************)
\* The protocol stream holds a Complete or an Error.
TerminalEmitted ==
    \E i \in 1..Len(stdoutStream) : stdoutStream[i].type \in {"complete", "error"}

\* Statements of the outer try block outside the two inner try statements.
TryBody ==
    {"validate", "emit_not_found", "exit_not_found", "emit_loading_audio",
     "get_audio_duration", "emit_no_duration", "exit_no_duration",
     "emit_loading_model", "detect_device", "load_redirect", "emit_model_loaded",
     "load_audio", "transcribe_redirect", "emit_processing", "emit_segment",
     "emit_transcription_complete", "emit_complete", "return"}

\* The calls wrapped by the inner try statements.
InnerTry == {"load_model", "transcribe"}

\* The finally clauses, before their assignment has run.
FinallyClause == {"load_finally", "transcribe_finally"}

\* The two except clauses of the outer try.
Handlers == {"except_interrupt", "exit_interrupt", "except_exception", "exit_exception"}

\* A KeyboardInterrupt raised where control stands: in an inner try it runs
\* the finally clause first; elsewhere in the outer try (its finally clauses
\* included, which then do not finish) it reaches except KeyboardInterrupt;
\* inside an except clause nothing catches it and the process dies.
Interrupt ==
    /\ interrupts < MaxInterrupts
    /\ pc \in TryBody \cup InnerTry \cup FinallyClause \cup Handlers
    /\ interrupts' = interrupts + 1
    /\ interrupted_before_terminal' =
          (interrupted_before_terminal \/ ~TerminalEmitted)
    /\ IF pc \in Handlers
       THEN /\ pc' = "exited"
            /\ exitCode' \in UncaughtInterruptStatus
            /\ UNCHANGED exc
       ELSE /\ exc' = KeyboardInterrupt
            /\ pc' = IF pc = "load_model" THEN "load_finally"
                     ELSE IF pc = "transcribe" THEN "transcribe_finally"
                     ELSE "except_interrupt"
            /\ UNCHANGED exitCode
    /\ UNCHANGED <<sysStdout, original_stdout, temp_stdout, temp_stdout2, stdoutStream,
                   stderrStream, device, total_duration, result, idx, libCalls,
                   path_exists, functionVars>>

Next ==
    \/ ImportRedirect
    \/ ImportLibrary
    \/ ImportRestore
    \/ ParseArgs
    \/ Validate
    \/ EmitFileNotFound
    \/ ExitFileNotFound
    \/ EmitLoadingAudio
    \/ GetAudioDuration
    \/ EmitNoDuration
    \/ ExitNoDuration
    \/ EmitLoadingModel
    \/ DetectDevice
    \/ LoadRedirect
    \/ LoadModel
    \/ LoadFinally
    \/ EmitModelLoaded
    \/ LoadAudio
    \/ TranscribeRedirect
    \/ Transcribe
    \/ TranscribeFinally
    \/ EmitProcessing
    \/ EmitSegment
    \/ EmitTranscriptionComplete
    \/ EmitComplete
    \/ Return
    \/ HandleKeyboardInterrupt
    \/ ExitInterrupt
    \/ HandleException
    \/ ExitException
    \/ Interrupt

Spec == Init /\ [][Next]_vars

(***************************************************************************)
(* TranscriptionProgressCallback, engine.py 117-133, taken on its own: one *)
(* instance called any number of times with any positions.  Times are      *)
(* whole seconds held in doubles, and the percent is computed in double    *)
(* precision (IEEE 754 binary64) as the interpreter computes it.  A        *)
(* positive double is [limbs |-> n, e |-> k] for the number n * 2^k, n     *)
(* being a natural number of at most MantissaBits significant bits written *)
(* as digits in base LimbBase, most significant first.                     *)
(***************************************************************************)
\* The significand of a double, in bits.
MantissaBits == 53

\* The digits of the model's long arithmetic, in bits.
LimbBits == 18

LimbBase == 2 ^ LimbBits

\* num / den = (num' / den') * 2^e with 1 <= num' / den' < 2.
RECURSIVE Normalize(_, _, _)
Normalize(num, den, e) ==
    IF num < den THEN Normalize(2 * num, den, e - 1)
    ELSE IF num >= 2 * den THEN Normalize(num, 2 * den, e + 1)
    ELSE [num |-> num, den |-> den, e |-> e]

\* Carry every digit that reached LimbBase into the digit before it.
RECURSIVE Propagate(_)
Propagate(limbs) ==
    LET last == limbs[Len(limbs)]
        front == SubSeq(limbs, 1, Len(limbs) - 1)
    IN  IF Len(limbs) = 1
        THEN IF last >= LimbBase THEN <<last \div LimbBase, last % LimbBase>> ELSE limbs
        ELSE Propagate([front EXCEPT ![Len(front)] = @ + last \div LimbBase])
                 \o <<last % LimbBase>>

\* The number of significant bits of limbs, whose first digit is not 0.
BitLength(limbs) ==
    LimbBits * (Len(limbs) - 1)
        + CHOOSE k \in 1..LimbBits : 2 ^ (k - 1) <= limbs[1] /\ limbs[1] < 2 ^ k

\* Round to nearest, ties to even: the number limbs (plus a non-zero
\* fraction when sticky) times 2^e, to a double.  The bits rounded away are
\* set to 0 rather than removed.
RoundToDouble(limbs, e, sticky) ==
    LET drop == BitLength(limbs) - MantissaBits
        last == limbs[Len(limbs)]
        low == last % (2 ^ drop)
        half == 2 ^ (drop - 1)
        odd == (last \div (2 ^ drop)) % 2 = 1
        up == low > half \/ (low = half /\ (sticky \/ odd))
        rounded == last - low + (IF up THEN 2 ^ drop ELSE 0)
    IN  IF drop <= 0 THEN [limbs |-> limbs, e |-> e]
        ELSE [limbs |-> Propagate([limbs EXCEPT ![Len(limbs)] = rounded]), e |-> e]

\* The double nearest to a / b, for integers a > 0 and b > 0: long division
\* to three digits, which are more than MantissaBits bits, then rounding.
FloatDiv(a, b) ==
    LET n == Normalize(a, b, 0)
        d1 == n.num * (2 ^ (LimbBits - 1))
        d2 == (d1 % n.den) * LimbBase
        d3 == (d2 % n.den) * LimbBase
    IN  RoundToDouble(<<d1 \div n.den, d2 \div n.den, d3 \div n.den>>,
                      n.e - (3 * LimbBits - 1), d3 % n.den # 0)

\* The double nearest to x * k, for a double x > 0 and a small integer k > 0.
FloatTimes(x, k) ==
    RoundToDouble(Propagate([i \in 1..Len(x.limbs) |-> x.limbs[i] * k]), x.e, FALSE)

\* The number the digits denote.
RECURSIVE LimbsValue(_)
LimbsValue(limbs) ==
    IF Len(limbs) = 0 THEN 0
    ELSE LimbsValue(SubSeq(limbs, 1, Len(limbs) - 1)) * LimbBase + limbs[Len(limbs)]

\* int(x) for a double x > 0 with a negative exponent: its integer part.
FloatToInt(x) ==
    LET shift == 0 - x.e
        kept == SubSeq(x.limbs, 1, Len(x.limbs) - shift \div LimbBits)
        bits == shift % LimbBits
    IN  IF Len(kept) = 0 THEN 0
        ELSE LimbsValue(SubSeq(kept, 1, Len(kept) - 1)) * (2 ^ (LimbBits - bits))
                 + kept[Len(kept)] \div (2 ^ bits)

\* 127: int((current_time / self.total_duration) * 100), the division and
\* the multiplication each rounded to a double, for whole numbers
\* current_time >= 0 and duration > 0.
FloatPercent(current_time, duration) ==
    IF current_time = 0 THEN 0
    ELSE FloatToInt(FloatTimes(FloatDiv(current_time, duration), 100))

\* 127-128: the percent of a call, min(percent, 99).
ComputedPercent(current_time, duration) ==
    Min(FloatPercent(current_time, duration), 99)

\* CallbackCall emitting whenever the percent is not below the last one.
CallbackCallNoThrottle(current_time) ==
    /\ pc = "callback"
    /\ calls < MaxCalls
    /\ calls' = calls + 1
    /\ IF /\ callback.total_duration > 0
          /\ ComputedPercent(current_time, callback.total_duration)
                >= callback.last_percent
       THEN LET percent == ComputedPercent(current_time, callback.total_duration)
            IN  /\ callback' = [callback EXCEPT !.last_percent = percent]
                /\ Emit(Progress(percent, <<"Transcribing... ", percent, "%">>))
       ELSE UNCHANGED <<callback, stdoutStream, stderrStream>>
    /\ UNCHANGED <<pc, sysStdout, original_stdout, temp_stdout, temp_stdout2, exitCode,
                   device, total_duration, exc, result, idx, interrupts, libCalls,
                   path_exists, interrupted_before_terminal, arg_percent,
                   arg_segment, arg_segment_index, formatted_segment>>

\* 124-133: __call__(current_time).
CallbackCall(current_time) ==
    /\ pc = "callback"
    /\ calls < MaxCalls
    /\ calls' = calls + 1
    /\ IF /\ callback.total_duration > 0
          /\ ComputedPercent(current_time, callback.total_duration)
                > callback.last_percent
       THEN LET percent == ComputedPercent(current_time, callback.total_duration)
            IN  /\ callback' = [callback EXCEPT !.last_percent = percent]
                /\ Emit(Progress(percent, <<"Transcribing... ", percent, "%">>))
       ELSE UNCHANGED <<callback, stdoutStream, stderrStream>>
    /\ UNCHANGED <<pc, sysStdout, original_stdout, temp_stdout, temp_stdout2, exitCode,
                   device, total_duration, exc, result, idx, interrupts, libCalls,
                   path_exists, interrupted_before_terminal, arg_percent,
                   arg_segment, arg_segment_index, formatted_segment>>

\* The total durations and the positions of the calls, in seconds: the
\* short ones, and a 50 s recording with calls at 29 s, at its end and past it.
TotalDurations == (0..MaxTotalDuration) \cup {50}

Positions == (0..MaxPosition) \cup {29, 50, 60}

\* The state of the process outside the function under study.
IdleProcess ==
    /\ sysStdout = "real"
    /\ original_stdout = "real"
    /\ temp_stdout = "unset"
    /\ temp_stdout2 = "unset"
    /\ stdoutStream = <<>>
    /\ stderrStream = <<>>
    /\ exitCode = "running"
    /\ device = "None"
    /\ total_duration = 0
    /\ exc = NoExc
    /\ result = NoResult
    /\ idx = 0
    /\ interrupts = 0
    /\ libCalls = {}
    /\ path_exists = TRUE
    /\ interrupted_before_terminal = FALSE

\* 120-122: __init__(total_duration).
ReporterInit ==
    /\ IdleProcess
    /\ pc = "callback"
    /\ \E d \in TotalDurations :
          callback = [total_duration |-> d, last_percent |-> 0]
    /\ calls = 0
    /\ arg_percent = "none"
    /\ arg_segment = "none"
    /\ arg_segment_index = 0
    /\ formatted_segment = "none"

ReporterNext == \E current_time \in Positions : CallbackCall(current_time)

ReporterSpec == ReporterInit /\ [][ReporterNext]_vars

(***************************************************************************)
(* emit_progress, protocol.py 66-82, taken on its own: called any number   *)
(* of times with any integer percent, in range, below it or above it.      *)
(***************************************************************************)
\* The percent arguments: around 0, around 100 and in between.
PercentArguments ==
    ((0 - MaxExcess)..MaxExcess) \cup {50} \cup ((100 - MaxExcess)..(100 + MaxExcess))

\* emit_progress(percent, status).
EmitProgressCall(percent) ==
    /\ pc = "emit_progress"
    /\ calls < MaxCalls
    /\ calls' = calls + 1
    /\ arg_percent' = percent
    /\ Emit(Progress(percent, "status"))
    /\ UNCHANGED <<pc, sysStdout, original_stdout, temp_stdout, temp_stdout2, exitCode,
                   device, total_duration, exc, result, idx, interrupts, libCalls,
                   path_exists, interrupted_before_terminal, callback, arg_segment,
                   arg_segment_index, formatted_segment>>

EmitterInit ==
    /\ IdleProcess
    /\ pc = "emit_progress"
    /\ callback = "none"
    /\ calls = 0
    /\ arg_percent = "none"
    /\ arg_segment = "none"
    /\ arg_segment_index = 0
    /\ formatted_segment = "none"

EmitterNext == \E percent \in PercentArguments : EmitProgressCall(percent)

EmitterSpec == EmitterInit /\ [][EmitterNext]_vars

(***************************************************************************)
(* format_segment, engine.py 67-95, taken on its own: called once with any *)
(* raw segment, a dict of which any key may be missing.  A dict is a       *)
(* function on its keys, a text a sequence of characters, a time a number  *)
(* of samples at 16 kHz on input and of milliseconds once rounded.         *)
(***************************************************************************)
\* The dict d without the keys outside keys.
Restrict(d, keys) == [k \in keys \cap DOMAIN d |-> d[k]]

\* Raw words: text, start and end, each of them there or not.
RawWordDicts ==
    { Restrict([text |-> t, start |-> 8, end |-> 32], keys) :
          t \in {<<"a", " ">>, <<" ", "b">>}, keys \in SUBSET {"text", "start", "end"} }

\* Raw segments: start, end, text, words and a key format_segment does not
\* read, each of them there or not.
RawSegmentDicts ==
    { Restrict([start |-> 4, end |-> 32, text |-> <<" ", "h", "i", " ">>,
                words |-> w, confidence |-> 1], keys) :
          w \in SeqsUpTo(RawWordDicts, MaxWords),
          keys \in SUBSET {"start", "end", "text", "words", "confidence"} }

SegmentIndexes == {0, 12}

\* dict.get(key, default).
Get(d, key, default) == IF key \in DOMAIN d THEN d[key] ELSE default

\* str.strip(): the text without its leading and trailing blanks.
RECURSIVE Strip(_)
Strip(text) ==
    IF Len(text) = 0 THEN text
    ELSE IF text[1] = " " THEN Strip(Tail(text))
    ELSE IF text[Len(text)] = " " THEN Strip(SubSeq(text, 1, Len(text) - 1))
    ELSE text

\* 83-87: the dict appended for one word.
FormatWord(word_data) ==
    [word |-> Strip(Get(word_data, "text", <<>>)),
     start |-> Round3Ms(Get(word_data, "start", 0)),
     end |-> Round3Ms(Get(word_data, "end", 0))]

\* format_segment appending the words last to first.
format_segment_reversed(segment, segment_index) ==
    [id |-> SegmentId(segment_index),
     start |-> Round3Ms(Get(segment, "start", 0)),
     end |-> Round3Ms(Get(segment, "end", 0)),
     text |-> Strip(Get(segment, "text", <<>>)),
     words |-> IF "words" \in DOMAIN segment
               THEN [i \in 1..Len(segment.words) |->
                        FormatWord(segment.words[Len(segment.words) + 1 - i])]
               ELSE <<>>]

\* 67-95: format_segment(segment, segment_index).
format_segment(segment, segment_index) ==
    [id |-> SegmentId(segment_index),
     start |-> Round3Ms(Get(segment, "start", 0)),
     end |-> Round3Ms(Get(segment, "end", 0)),
     text |-> Strip(Get(segment, "text", <<>>)),
     words |-> IF "words" \in DOMAIN segment
               THEN [i \in 1..Len(segment.words) |-> FormatWord(segment.words[i])]
               ELSE <<>>]

\* The call and its return.
FormatSegmentCall ==
    /\ pc = "format_segment"
    /\ pc' = "returned"
    /\ calls' = calls + 1
    /\ formatted_segment' = format_segment(arg_segment, arg_segment_index)
    /\ UNCHANGED <<sysStdout, original_stdout, temp_stdout, temp_stdout2, stdoutStream,
                   stderrStream, exitCode, device, total_duration, exc, result, idx,
                   interrupts, libCalls, path_exists, interrupted_before_terminal,
                   callback, arg_percent, arg_segment, arg_segment_index>>

FormatterInit ==
    /\ IdleProcess
    /\ pc = "format_segment"
    /\ callback = "none"
    /\ calls = 0
    /\ arg_percent = "none"
    /\ arg_segment \in RawSegmentDicts
    /\ arg_segment_index \in SegmentIndexes
    /\ formatted_segment = "none"

FormatterNext == FormatSegmentCall

FormatterSpec == FormatterInit /\ [][FormatterNext]_vars

(***************************************************************************)
(* Properties.                                                             *)
(***************************************************************************)
IsMessage(m) == m.type \in {"progress", "segment", "complete", "error"}

IsTerminal(m) == m.type \in {"complete", "error"}

IsProgress(m) == m.type = "progress"

\* The protocol messages on the protocol stream, in order.
Messages == SelectSeq(stdoutStream, IsMessage)

\* The terminal messages on the protocol stream, in order.
Terminals == SelectSeq(stdoutStream, IsTerminal)

\* The process has exited after running transcribe_audio (status 2 is the
\* command-line parser's exit, before transcribe_audio is called).
RunEnded == pc = "exited" /\ exitCode # 2

CancelError == Error("Transcription cancelled by user")

NotFoundError == Error("File not found: " \o AudioPath)

\* C1: every run of transcribe_audio puts exactly one terminal message on the
\* protocol stream: never two (Complete and Error, or two Errors), and never
\* none once the run has ended.
C1_ExactlyOneTerminal ==
    /\ Len(Terminals) <= 1
    /\ RunEnded => Len(Terminals) = 1

\* C2: the terminal message is the last message: nothing of any type follows
\* a Complete or an Error on the protocol stream.
C2_TerminalIsLast ==
    \A i \in 1..Len(stdoutStream) :
        IsTerminal(stdoutStream[i]) => i = Len(stdoutStream)

\* C3: only protocol messages reach the primary stream: no text printed by
\* the library during any of its calls is on the protocol stream.
C3_OnlyProtocolMessages ==
    \A i \in 1..Len(stdoutStream) : IsMessage(stdoutStream[i])

\* Positions at which the next statement is an emit_* call.
EmitPoints ==
    {"emit_not_found", "emit_loading_audio", "emit_no_duration", "emit_loading_model",
     "emit_model_loaded", "emit_processing", "emit_segment",
     "emit_transcription_complete", "emit_complete", "except_interrupt",
     "except_exception"}

\* C4: the redirection is scoped and exception-safe: whenever an emit_* call
\* is about to run, sys.stdout is the true primary stream again, so no
\* protocol message is ever written through the redirector.
C4_EmitsReachPrimaryStream ==
    /\ pc \in EmitPoints => sysStdout = "real"
    /\ \A i \in 1..Len(stderrStream) : ~IsMessage(stderrStream[i])

\* C5: the percents of the Progress messages of a run are non-decreasing in
\* emission order.
C5_ProgressNonDecreasing ==
    \A i, j \in 1..Len(stdoutStream) :
        (i < j /\ IsProgress(stdoutStream[i]) /\ IsProgress(stdoutStream[j]))
            => stdoutStream[i].percent <= stdoutStream[j].percent

\* A run got as far as Progress(100), with four smaller percents before it.
C5_Witness ==
    /\ RunEnded
    /\ Len(SelectSeq(stdoutStream, IsProgress)) = 5
    /\ \E i \in 1..Len(stdoutStream) :
          IsProgress(stdoutStream[i]) /\ stdoutStream[i].percent = 100

\* C6 as stated: every Progress message has percent in [0, 99]; none carries 100.
C6_ProgressAtMost99 ==
    \A i \in 1..Len(stdoutStream) :
        IsProgress(stdoutStream[i]) => stdoutStream[i].percent \in 0..99

\* C6 amended: every Progress message has percent in [0, 100]; 100 is carried
\* only by a Progress that comes after every segment of the result and is the
\* last non-terminal message (nothing but a terminal message follows it, and
\* every Progress before it has percent in [0, 99]).
C6_Only100BeforeTerminal ==
    \A i \in 1..Len(stdoutStream) :
        IsProgress(stdoutStream[i]) =>
            /\ stdoutStream[i].percent \in 0..100
            /\ stdoutStream[i].percent = 100 =>
                  /\ \A j \in (i + 1)..Len(stdoutStream) : IsTerminal(stdoutStream[j])
                  /\ \A j \in 1..(i - 1) :
                        /\ ~IsTerminal(stdoutStream[j])
                        /\ IsProgress(stdoutStream[j]) => stdoutStream[j].percent \in 0..99
                  /\ Len(SelectSeq(stdoutStream, LAMBDA m : m.type = "segment"))
                        = Len(Segments)

\* Progress(100) is on the stream and Complete follows it.
C6_Witness ==
    \E i \in 1..Len(stdoutStream) :
        /\ IsProgress(stdoutStream[i])
        /\ stdoutStream[i].percent = 100
        /\ i < Len(stdoutStream)
        /\ stdoutStream[i + 1].type = "complete"

\* C7: the exit code is 0, 1 or 130 and matches the outcome: 0 exactly when
\* the run ended with Complete, 130 exactly when it ended with the
\* cancellation Error, 1 exactly when it ended with any other Error.
C7_ExitCodeMatchesOutcome ==
    pc = "exited" =>
        /\ exitCode \in {0, 1, 130}
        /\ Len(Messages) > 0
        /\ LET last == Messages[Len(Messages)]
           IN  /\ exitCode = 0 <=> last.type = "complete"
               /\ exitCode = 130 <=> last = CancelError
               /\ exitCode = 1 <=> (last.type = "error" /\ last # CancelError)

\* C8: an interrupt delivered while the orchestrator runs, before any
\* terminal message, ends the run with the cancellation Error as the last
\* message of the protocol stream and exit code 130.
C8_InterruptEndsInCancellation ==
    (pc = "exited" /\ interrupted_before_terminal) =>
        /\ exitCode = 130
        /\ Len(Messages) > 0
        /\ Messages[Len(Messages)] = CancelError

\* C9 as stated: with a missing input path the whole protocol stream is the
\* single File-not-found Error, no library call is made, and the exit code is 1.
C9_MissingFileSingleError ==
    (RunEnded /\ ~path_exists) =>
        /\ stdoutStream = <<NotFoundError>>
        /\ libCalls = {}
        /\ exitCode = 1

\* C9 amended: with a missing input path no library call is made and no
\* Progress, Segment or Complete message is emitted (nor any library text
\* written to the protocol stream); and when no interrupt is delivered, the
\* whole protocol stream is the single File-not-found Error and the exit code
\* is 1.
C9_MissingFileNoWork ==
    (~path_exists /\ pc \notin {"import_redirect", "import_lib", "import_restore", "main"}) =>
        /\ libCalls = {}
        /\ \A i \in 1..Len(stdoutStream) : stdoutStream[i].type = "error"
        /\ \A i \in 1..Len(stderrStream) :
              stderrStream[i].type \in {"error", "noise"}
        /\ (RunEnded /\ interrupts = 0) =>
              /\ stdoutStream = <<NotFoundError>>
              /\ exitCode = 1

\* A run on a missing path has ended without interrupt.
C9_Witness ==
    /\ RunEnded
    /\ ~path_exists
    /\ interrupts = 0
    /\ stdoutStream = <<NotFoundError>>

\* The number a sequence of decimal digits denotes.
RECURSIVE DigitsValue(_)
DigitsValue(ds) ==
    IF Len(ds) = 0 THEN 0
    ELSE 10 * DigitsValue(SubSeq(ds, 1, Len(ds) - 1)) + ds[Len(ds)]

\* The percent of a Progress message, the index of a Segment, the type of
\* the others.
Shape(m) ==
    IF m.type = "progress" THEN <<"progress", m.percent>>
    ELSE IF m.type = "segment" THEN <<"segment", DigitsValue(m.id.digits)>>
    ELSE IF m.type = "complete" THEN <<"complete", m.duration>>
    ELSE <<m.type>>

\* The run met no failure and no interrupt: the path exists, the probe gave
\* a positive duration, no call raised and every segment was well formed.
CleanRun ==
    /\ RunEnded
    /\ path_exists
    /\ total_duration > 0
    /\ exc = NoExc
    /\ interrupts = 0

\* C10: on a run where every external call succeeds and no interrupt occurs
\* the protocol messages are, in order, Progress 5, 10, 20, (no reporter
\* updates,) Progress 90, one Segment per result segment, Progress 100 and
\* Complete with the probed duration (as serialised, to 3 decimals); the exit
\* code is 0.
C10_SuccessfulRunStream ==
    CleanRun =>
        /\ exitCode = 0
        /\ [i \in 1..Len(Messages) |-> Shape(Messages[i])]
              = <<<<"progress", 5>>, <<"progress", 10>>, <<"progress", 20>>,
                  <<"progress", 90>>>>
                \o [k \in 1..Len(Segments) |-> <<"segment", k - 1>>]
                \o <<<<"progress", 100>>, <<"complete", Round3Ms(total_duration)>>>>

\* A clean run with two segments has ended.
C10_Witness ==
    /\ CleanRun
    /\ Len(Segments) = 2
    /\ exitCode = 0

IsSegment(m) == m.type = "segment"

\* The Segment messages on the protocol stream, in order.
SegmentMessages == SelectSeq(stdoutStream, IsSegment)

\* Progress(p) is on the protocol stream.
ProgressEmitted(p) ==
    \E i \in 1..Len(stdoutStream) :
        IsProgress(stdoutStream[i]) /\ stdoutStream[i].percent = p

\* C11: Segment messages come only after Progress(90); the k-th one (from 0)
\* is the k-th segment of the result and carries id seg_ and k padded with
\* zeros to 4 digits; once the loop is over (Progress(100) is out) there is
\* exactly one per segment of the result; ids are distinct and increasing.
C11_OneSegmentPerResultSegment ==
    /\ \A i \in 1..Len(stdoutStream) :
          IsSegment(stdoutStream[i]) =>
              \E j \in 1..(i - 1) :
                  IsProgress(stdoutStream[j]) /\ stdoutStream[j].percent = 90
    /\ Len(SegmentMessages) <= Len(Segments)
    /\ \A k \in 1..Len(SegmentMessages) :
          /\ SegmentMessages[k].id = [prefix |-> "seg_", digits |-> <<0, 0, 0, k - 1>>]
          /\ SegmentMessages[k].start = Segments[k].start
    /\ ProgressEmitted(100) => Len(SegmentMessages) = Len(Segments)
    /\ \A j, k \in 1..Len(SegmentMessages) :
          j < k => /\ SegmentMessages[j].id # SegmentMessages[k].id
                   /\ DigitsValue(SegmentMessages[j].id.digits)
                         < DigitsValue(SegmentMessages[k].id.digits)

\* Both segments of a two-segment result are out, and Progress(100) after them.
C11_Witness ==
    /\ Len(Segments) = 2
    /\ Len(SegmentMessages) = 2
    /\ ProgressEmitted(100)

\* C12 as stated: the Segment messages of a run are in non-decreasing order of
\* start, whatever the transcription call returned.
C12_SegmentsByStart ==
    \A j, k \in 1..Len(SegmentMessages) :
        j < k => SegmentMessages[j].start <= SegmentMessages[k].start

\* C12 amended: the Segment messages keep the order of the returned result:
\* two of them are out of start order only where the returned segments are,
\* so they are in non-decreasing order of start whenever the result is.
C12_SegmentsInReturnedOrder ==
    /\ \A j, k \in 1..Len(SegmentMessages) :
          (j < k /\ SegmentMessages[j].start > SegmentMessages[k].start)
              => (k <= Len(Segments) /\ Segments[j].start > Segments[k].start)
    /\ (\A j, k \in 1..Len(Segments) : j < k => Segments[j].start <= Segments[k].start)
          => C12_SegmentsByStart

\* Two segments returned in increasing start order are both out.
C12_Witness ==
    /\ Len(Segments) = 2
    /\ Segments[1].start < Segments[2].start
    /\ Len(SegmentMessages) = 2

NoDurationError == Error("Could not determine audio duration")

\* The probe ran and did not determine a duration: load_audio raised, or the
\* audio was empty.
ProbeFailed == "load_audio" \in libCalls /\ total_duration <= 0

\* C13 as stated: when the probe cannot determine the duration, the protocol
\* messages of the run are exactly Progress(5) and the no-duration Error, the
\* model is never loaded, and the exit code is 1.
C13_ProbeFailureStream ==
    (RunEnded /\ ProbeFailed) =>
        /\ Len(Messages) = 2
        /\ Shape(Messages[1]) = <<"progress", 5>>
        /\ Messages[2] = NoDurationError
        /\ "load_model" \notin libCalls
        /\ exitCode = 1

\* C13 amended: when the probe cannot determine the duration, the model is
\* never loaded, nothing is transcribed and Progress(5) is the only
\* non-terminal message; and when no interrupt is delivered, the protocol
\* messages are exactly Progress(5) and the no-duration Error, with exit code 1.
C13_ProbeFailureNoModel ==
    ProbeFailed =>
        /\ "load_model" \notin libCalls
        /\ "transcribe" \notin libCalls
        /\ \A i \in 1..Len(Messages) :
              \/ IsTerminal(Messages[i]) /\ i > 1
              \/ Shape(Messages[i]) = <<"progress", 5>> /\ i = 1
        /\ (RunEnded /\ interrupts = 0) =>
              /\ Len(Messages) = 2
              /\ Messages[2] = NoDurationError
              /\ exitCode = 1

\* A run whose probe failed has ended without interrupt.
C13_Witness ==
    /\ RunEnded
    /\ ProbeFailed
    /\ interrupts = 0
    /\ Messages[Len(Messages)] = NoDurationError

\* C14: an exception raised by the model load or by the transcription is
\* terminal: the run emits the single Error carrying the exception's message
\* and exits with code 1; no later stage is entered (no Progress(20) and no
\* transcription after a failed load; no Progress(90), Segment or Complete
\* after either failure).
C14_ExceptionIsTerminal ==
    (RunEnded /\ exc.kind = "Exception"
              /\ exc.msg \in {"model load failed", "transcription failed"}) =>
        /\ Terminals = <<Error(exc.msg)>>
        /\ exitCode = 1
        /\ exc.msg = "model load failed" =>
              (~ProgressEmitted(20) /\ "transcribe" \notin libCalls)
        /\ ~ProgressEmitted(90)
        /\ \A i \in 1..Len(stdoutStream) :
              stdoutStream[i].type \notin {"segment", "complete"}

\* The percent of the last message on the protocol stream.
LastEmittedPercent(stream) == stream[Len(stream)].percent

\* C15: a call emits only when its computed percent strictly exceeds
\* last_percent, and then records it; otherwise it emits nothing and leaves
\* the instance unchanged; so last_percent never decreases and the emitted
\* percents are strictly increasing, for calls with any positions in any order.
C15_ThrottledStrictlyIncreasing ==
    [][/\ callback'.last_percent >= callback.last_percent
       /\ \A t \in Positions :
             CallbackCall(t) =>
                 IF /\ callback.total_duration > 0
                    /\ ComputedPercent(t, callback.total_duration) > callback.last_percent
                 THEN /\ Len(stdoutStream') = Len(stdoutStream) + 1
                      /\ LastEmittedPercent(stdoutStream')
                            = ComputedPercent(t, callback.total_duration)
                      /\ callback'.last_percent
                            = ComputedPercent(t, callback.total_duration)
                 ELSE UNCHANGED <<callback, stdoutStream, stderrStream>>
       /\ stdoutStream' # stdoutStream =>
             /\ LastEmittedPercent(stdoutStream') > callback.last_percent
             /\ Len(stdoutStream) > 0 =>
                   LastEmittedPercent(stdoutStream') > LastEmittedPercent(stdoutStream)
      ]_vars

\* Two percents are out and at least one call was suppressed.
C15_Witness ==
    /\ pc = "callback"
    /\ Len(stdoutStream) >= 2
    /\ calls > Len(stdoutStream)
    /\ callback.last_percent = LastEmittedPercent(stdoutStream)

\* C16: for a total duration > 0 the percent a call computes is
\* floor(current / total * 100) clamped to [0, 99]: it is p in 0..99 with
\* p * total <= 100 * current < (p + 1) * total when below 99, and 99 when
\* 100 * current >= 99 * total; what the reporter emits is that percent, in
\* [0, 99] and never 100, also when current >= total.
C16_PercentIsFloorClampedTo99 ==
    [][\A t \in Positions :
          (CallbackCall(t) /\ callback.total_duration > 0) =>
              LET p == ComputedPercent(t, callback.total_duration)
                  total == callback.total_duration
              IN  /\ p \in 0..99
                  /\ p < 99 => (p * total <= 100 * t /\ 100 * t < (p + 1) * total)
                  /\ p = 99 => 100 * t >= 99 * total
                  /\ stdoutStream' # stdoutStream =>
                        /\ LastEmittedPercent(stdoutStream') = p
                        /\ LastEmittedPercent(stdoutStream') \in 0..99
      ]_vars

\* C17: emit_progress(p, status) puts one Progress message on the protocol
\* stream whose percent is 0 for p < 0, 100 for p > 100 and p otherwise, so
\* no Progress message on the protocol stream has a percent outside 0..100.
C17_PercentClampedInto0To100 ==
    /\ \A i \in 1..Len(stdoutStream) :
          IsProgress(stdoutStream[i]) => stdoutStream[i].percent \in 0..100
    /\ (pc = "emit_progress" /\ calls > 0) =>
          /\ Len(stdoutStream) = calls
          /\ stdoutStream[calls].type = "progress"
          /\ stdoutStream[calls].percent
                = (IF arg_percent < 0 THEN 0
                   ELSE IF arg_percent > 100 THEN 100 ELSE arg_percent)

\* Calls with a percent below 0, above 100 and in range have been made,
\* the last one with a percent out of range.
C17_Witness ==
    /\ pc = "emit_progress"
    /\ calls >= 3
    /\ arg_percent \notin 0..100
    /\ ProgressEmitted(0)
    /\ ProgressEmitted(100)
    /\ ProgressEmitted(50)

\* C18: format_segment returns exactly the fields id, start, end, text and
\* words; a start or end missing from the raw segment or from one of its
\* words comes out as 0.0, a missing text as the empty string, a missing
\* words list as the empty list; and the words come out one for one in the
\* order of the raw segment.
C18_DefaultsAtTheBoundary ==
    pc = "returned" =>
        LET raw == arg_segment
            out == formatted_segment
        IN  /\ DOMAIN out = {"id", "start", "end", "text", "words"}
            /\ "start" \notin DOMAIN raw => out.start = 0
            /\ "end" \notin DOMAIN raw => out.end = 0
            /\ "text" \notin DOMAIN raw => out.text = <<>>
            /\ "words" \notin DOMAIN raw => out.words = <<>>
            /\ "words" \in DOMAIN raw =>
                  /\ Len(out.words) = Len(raw.words)
                  /\ \A i \in 1..Len(raw.words) :
                        LET w == raw.words[i]
                            o == out.words[i]
                        IN  /\ DOMAIN o = {"word", "start", "end"}
                            /\ o.start = (IF "start" \in DOMAIN w THEN 1 ELSE 0)
                            /\ o.end = (IF "end" \in DOMAIN w THEN 2 ELSE 0)
                            /\ o.word = (IF "text" \notin DOMAIN w THEN <<>>
                                         ELSE IF w.text = <<"a", " ">> THEN <<"a">>
                                         ELSE <<"b">>)

\* format_segment has returned for a raw segment without start and text,
\* whose two words differ, the first of them without end and the second
\* without text.
C18_Witness ==
    /\ pc = "returned"
    /\ DOMAIN arg_segment = {"end", "words", "confidence"}
    /\ Len(arg_segment.words) = 2
    /\ DOMAIN arg_segment.words[1] = {"text", "start"}
    /\ DOMAIN arg_segment.words[2] = {"start", "end"}
    /\ formatted_segment.words[1].word = <<"a">>
    /\ formatted_segment.words[2].word = <<>>
    /\ formatted_segment.start = 0

IsNonTerminal(m) == IsMessage(m) /\ ~IsTerminal(m)

\* The Progress and Segment messages on the protocol stream, in order.
NonTerminals == SelectSeq(stdoutStream, IsNonTerminal)

\* Progress 5, 10, 20, 90, one Segment per segment of the result, Progress 100.
FixedSequence ==
    <<<<"progress", 5>>, <<"progress", 10>>, <<"progress", 20>>, <<"progress", 90>>>>
        \o [k \in 1..Len(Segments) |-> <<"segment", k - 1>>]
        \o <<<<"progress", 100>>>>

\* C19: in every run, ended or not, failed or not, the Progress and Segment
\* messages emitted so far are the first ones of Progress 5, 10, 20, 90,
\* Segment 0 .. n-1, Progress 100, and none of them follows a terminal
\* message; the reporter is never constructed or called, so no other percent
\* appears; no Segment comes before Progress(90); and Complete is on the
\* stream only with the whole sequence before it.
C19_PrefixOfFixedSequence ==
    /\ Len(NonTerminals) <= Len(FixedSequence)
    /\ \A i \in 1..Len(NonTerminals) : Shape(NonTerminals[i]) = FixedSequence[i]
    /\ \A i \in 1..Len(stdoutStream) : \A j \in (i + 1)..Len(stdoutStream) :
          IsTerminal(stdoutStream[i]) => ~IsNonTerminal(stdoutStream[j])
    /\ callback = "none"
    /\ calls = 0
    /\ \A i \in 1..Len(stdoutStream) :
          /\ IsProgress(stdoutStream[i]) =>
                stdoutStream[i].percent \in {5, 10, 20, 90, 100}
          /\ IsSegment(stdoutStream[i]) =>
                \E j \in 1..(i - 1) :
                    IsProgress(stdoutStream[j]) /\ stdoutStream[j].percent = 90
          /\ stdoutStream[i].type = "complete" =>
                Len(SelectSeq(SubSeq(stdoutStream, 1, i - 1), IsNonTerminal))
                    = Len(FixedSequence)

\* A run has failed in the segment loop: its second segment was malformed,
\* the first one is out and the run ended with an Error.
C19_Witness ==
    /\ RunEnded
    /\ exitCode = 1
    /\ Len(Segments) = 2
    /\ Len(NonTerminals) = 5
    /\ IsSegment(NonTerminals[5])
    /\ Len(Terminals) = 1

====
